---- MODULE Spec2Model ----
(***************************************************************************)
(* Model of ip-sniffer (src/src/main.rs): main spawns num_threads workers, *)
(* each running scan(tx, i, addr, num_threads); the workers send the ports *)
(* that accept a connection over an mpsc channel; main drains the channel  *)
(* until every Sender is dropped, sorts the ports and prints them.         *)
(*                                                                         *)
(* Ports and thread counts are u16 in the program.  The model keeps the    *)
(* fixed-width arithmetic but scales the type down: a port is a value in   *)
(* 0 .. MaxPort, MaxPort stands for u16::max_value(), and an addition that *)
(* does not fit either panics or wraps modulo MaxPort + 1.                 *)
(***************************************************************************)
EXTENDS Integers, Sequences, FiniteSets, TLC

\* u16::max_value(), scaled down: the largest port / thread count.
MaxPort == 7
\* At most this many ports of the target accept connections.
MaxOpen == 2
\* A run built without overflow checks is followed through at most this
\* many wraparounds of `port += num_threads`, all workers together.
MaxWraps == 1

\* number of values of the port type
Modulus == MaxPort + 1
Ports == 0 .. MaxPort

VARIABLES
    num_threads,   \* arguments.threads
    overflowChecks,\* TRUE: `+=` panics on overflow (debug build); FALSE: it wraps (release build)
    open,          \* ports of addr on which TcpStream::connect succeeds
    status,        \* per worker: "idle" (not spawned), "run", "done" (returned), "panic" (unwound)
    port,          \* per worker: scan's local `port`
    tries,         \* per worker, per port: number of connection attempts made
    wraps,         \* per worker: number of times `port += num_threads` wrapped
    wrapTries,     \* per worker: attempts made on a port reached after a wraparound
    sent,          \* per worker, per port: number of tx.send(port) calls made
    markers,       \* number of "." written to stdout
    chan,          \* values sent and not yet received
    mainTx,        \* TRUE while main holds the original Sender `tx`
    handles,       \* workers holding a live clone of the Sender
    mainPc,        \* main's position: "parse", "spawn", "drop", "recv", "sort", "print", "done";
                   \* "exit" after process::exit, "abort" after a panic of the main thread
    next_i,        \* loop variable i of `for i in 0..num_threads`
    out,           \* main's vector `out`
    received,      \* the values main took from rx, in arrival order
    printed,       \* the "<v> is open" lines printed, as the values v
    args,          \* env::args(): the argument vector, each string a sequence of characters
    parsed         \* what Arguments::new(&args) came to: Ok, Err, a panic, or "none" before the call

vars == << num_threads, overflowChecks, open, status, port, tries, wraps,
           wrapTries, sent, markers, chan, mainTx, handles, mainPc, next_i,
           out, received, printed, args, parsed >>

\* the run's inputs: fixed once main has parsed its arguments
inputs == << num_threads, overflowChecks, open, args, parsed >>
\* the state owned by the scan threads
scanVars == << status, port, tries, wraps, wrapTries, sent, markers >>

Workers == 0 .. (num_threads - 1)

RECURSIVE SumUpTo(_, _)
SumUpTo(f, k) == IF k < 0 THEN 0 ELSE f[k] + SumUpTo(f, k - 1)
\* wraparounds so far, all workers together
TotalWraps == SumUpTo(wraps, num_threads - 1)

\* ---------------------------------------------------------------- arguments

\* threads: 4, when only <IPADDR> is given
DefaultThreads == 4

\* argument strings, as sequences of characters
ProgName == << "s" >>
FlagH == << "-", "h" >>
FlagHelp == << "-", "h", "e", "l", "p" >>
FlagJ == << "-", "j" >>
Junk == << "x" >>
Loopback == << ":", ":", "1" >>

Digits == << "0", "1", "2", "3", "4", "5", "6", "7", "8", "9" >>
IsDigit(c) == \E d \in 1 .. Len(Digits) : Digits[d] = c
DigitValue(c) == (CHOOSE d \in 1 .. Len(Digits) : Digits[d] = c) - 1

\* str::contains(pat): pat occurs in s as a substring
Contains(s, pat) ==
    \E k \in 1 .. (Len(s) - Len(pat) + 1) : SubSeq(s, k, k + Len(pat) - 1) = pat

\* IpAddr::from_str(s).is_ok(): the addresses the model knows
IsIpAddr(s) == s \in { Loopback }

RECURSIVE DecimalValue(_)
DecimalValue(s) ==
    IF Len(s) = 0 THEN 0
    ELSE 10 * DecimalValue(SubSeq(s, 1, Len(s) - 1)) + DigitValue(s[Len(s)])

\* s.parse::<u16>(): decimal digits whose value fits the type
ParsesAsThreads(s) ==
    /\ Len(s) > 0
    /\ \A k \in 1 .. Len(s) : IsDigit(s[k])
    /\ DecimalValue(s) <= MaxPort

Ok(threads) == [kind |-> "Ok", err |-> "", threads |-> threads]
Err(msg) == [kind |-> "Err", err |-> msg, threads |-> 0]
\* args[3] indexed past the end of the slice: Arguments::new panics
IndexPanic == [kind |-> "panic", err |-> "index out of bounds", threads |-> 0]
NotCalled == [kind |-> "none", err |-> "", threads |-> 0]

\* args[i] of the Rust slice (0-based)
Arg(a, i) == a[i + 1]

\* Arguments::new(&args); `a || b && c` groups as a || (b && c)
ArgumentsNew(a) ==
    IF Len(a) < 2 THEN Err("not enough arguments")
    ELSE IF Len(a) > 4 THEN Err("too many arguments")
    ELSE IF IsIpAddr(Arg(a, 1)) THEN Ok(DefaultThreads)
    ELSE IF Contains(Arg(a, 1), FlagH) \/ (Contains(Arg(a, 1), FlagHelp) /\ Len(a) = 2)
         THEN Err("help")
    ELSE IF Contains(Arg(a, 1), FlagH) \/ Contains(Arg(a, 1), FlagHelp)
         THEN Err("too many arguments")
    ELSE IF Contains(Arg(a, 1), FlagJ)
         THEN IF Len(a) < 4 THEN IndexPanic
              ELSE IF ~IsIpAddr(Arg(a, 3))
                   THEN Err("not a valid IPADDR; must be IPv4 or IPv6")
              ELSE IF ~ParsesAsThreads(Arg(a, 2))
                   THEN Err("failed to parse thread number")
              ELSE Ok(DecimalValue(Arg(a, 2)))
    ELSE Err("invalid syntax")

\* the command line `-j <n> ::1`
JArgs(n) == << ProgName, FlagJ, << Digits[n + 1] >>, Loopback >>

\* the strings an argument is drawn from
ArgStrings ==
    { FlagH, FlagHelp, FlagJ, Junk, Loopback, << "0" >>, << "7" >>, << "8" >> }
\* argument vectors: the program name and up to four arguments
ArgVectors ==
    { << ProgName >> \o t : t \in UNION { [1 .. k -> ArgStrings] : k \in 0 .. 4 } }

\* ---------------------------------------------------------------- helpers

\* (mutation) the vector is left in arrival order
Sort_ArrivalOrder(s) == s

\* out.sort(): ascending order, duplicates kept.  The k-th element of the
\* result is the value v with fewer than k elements below it and at least k
\* elements not above it.
Sort(s) ==
    [k \in 1 .. Len(s) |->
        CHOOSE v \in { s[j] : j \in 1 .. Len(s) } :
            /\ Cardinality({ j \in 1 .. Len(s) : s[j] < v }) < k
            /\ k <= Cardinality({ j \in 1 .. Len(s) : s[j] <= v })]

\* (mutation) the first port is start_port itself
StartPort_NoOffset(i) == i

\* let mut port: u16 = start_port + 1;
StartPort(i) == i + 1

\* (mutation) the comparison is strict
BreakCond_Strict(n) == MaxPort < n

\* if u16::max_value() <= num_threads { break; }
BreakCond(n) == MaxPort <= n

\* (mutation) the stride is one too long
NextCandidate_LongStride(p, n) == p + n + 1

\* port += num_threads, computed without narrowing
NextCandidate(p, n) == p + n

\* (mutation) the Ok arm sends the port without writing the progress marker
Connect_NoMarker(w) ==
    /\ tries' = [tries EXCEPT ![w][port[w]] = @ + 1]
    /\ wrapTries' = [wrapTries EXCEPT ![w] = IF wraps[w] > 0 THEN @ + 1 ELSE @]
    /\ IF port[w] \in open
       THEN /\ sent' = [sent EXCEPT ![w][port[w]] = @ + 1]
            /\ chan' = Append(chan, port[w])
            /\ UNCHANGED markers
       ELSE UNCHANGED << markers, sent, chan >>

\* TcpStream::connect((addr, port)) and the Ok arm: print!("."), flush, tx.send(port)
Connect(w) ==
    /\ tries' = [tries EXCEPT ![w][port[w]] = @ + 1]
    /\ wrapTries' = [wrapTries EXCEPT ![w] = IF wraps[w] > 0 THEN @ + 1 ELSE @]
    /\ IF port[w] \in open
       THEN /\ markers' = markers + 1
            /\ sent' = [sent EXCEPT ![w][port[w]] = @ + 1]
            /\ chan' = Append(chan, port[w])
       ELSE UNCHANGED << markers, sent, chan >>

\* ---------------------------------------------------------------- Init

\* the state of the scan before any thread is spawned, the inputs being given
Start ==
    /\ status = [w \in Workers |-> "idle"]
    /\ port = [w \in Workers |-> 0]
    /\ tries = [w \in Workers |-> [p \in Ports |-> 0]]
    /\ wraps = [w \in Workers |-> 0]
    /\ wrapTries = [w \in Workers |-> 0]
    /\ sent = [w \in Workers |-> [p \in Ports |-> 0]]
    /\ markers = 0
    /\ chan = << >>
    /\ mainTx = TRUE
    /\ handles = {}
    /\ next_i = 0
    /\ out = << >>
    /\ received = << >>
    /\ printed = << >>

\* any thread count, either build, any target with at most MaxOpen open ports
Init ==
    /\ num_threads \in 1 .. MaxPort
    /\ overflowChecks \in BOOLEAN
    /\ open \in { s \in SUBSET Ports : Cardinality(s) <= MaxOpen }
    /\ args = JArgs(num_threads)
    /\ parsed = ArgumentsNew(args)
    /\ mainPc = "spawn"
    /\ Start

\* as Init, the target's open ports being among the lowest two and the top one
FairInit ==
    /\ num_threads \in 1 .. MaxPort
    /\ overflowChecks \in BOOLEAN
    /\ open \in { s \in SUBSET {1, 2, MaxPort} : Cardinality(s) <= MaxOpen }
    /\ args = JArgs(num_threads)
    /\ parsed = ArgumentsNew(args)
    /\ mainPc = "spawn"
    /\ Start

\* main is about to call Arguments::new on any argument vector; either build;
\* the target has no open port, or the lowest and the top one
ArgsInit ==
    /\ args \in ArgVectors
    /\ parsed = NotCalled
    /\ num_threads = 0
    /\ overflowChecks \in BOOLEAN
    /\ open \in { {}, {1, MaxPort} }
    /\ mainPc = "parse"
    /\ Start

\* ---------------------------------------------------------------- main

\* Arguments::new(&args) returns Ok: num_threads and addr are taken from it
MainParseOk ==
    /\ mainPc = "parse"
    /\ ArgumentsNew(args).kind = "Ok"
    /\ parsed' = ArgumentsNew(args)
    /\ num_threads' = parsed'.threads
    /\ status' = [w \in 0 .. (num_threads' - 1) |-> "idle"]
    /\ port' = [w \in 0 .. (num_threads' - 1) |-> 0]
    /\ tries' = [w \in 0 .. (num_threads' - 1) |-> [p \in Ports |-> 0]]
    /\ wraps' = [w \in 0 .. (num_threads' - 1) |-> 0]
    /\ wrapTries' = [w \in 0 .. (num_threads' - 1) |-> 0]
    /\ sent' = [w \in 0 .. (num_threads' - 1) |-> [p \in Ports |-> 0]]
    /\ mainPc' = "spawn"
    /\ UNCHANGED << overflowChecks, open, args, markers, chan, mainTx, handles,
                    next_i, out, received, printed >>

\* Arguments::new(&args) returns Err: unwrap_or_else ends the process
MainParseErr ==
    /\ mainPc = "parse"
    /\ ArgumentsNew(args).kind = "Err"
    /\ parsed' = ArgumentsNew(args)
    /\ mainPc' = "exit"
    /\ UNCHANGED << num_threads, overflowChecks, open, args, scanVars, chan,
                    mainTx, handles, next_i, out, received, printed >>

\* Arguments::new(&args) panics: the main thread unwinds
MainParsePanic ==
    /\ mainPc = "parse"
    /\ ArgumentsNew(args).kind = "panic"
    /\ parsed' = ArgumentsNew(args)
    /\ mainPc' = "abort"
    /\ UNCHANGED << num_threads, overflowChecks, open, args, scanVars, chan,
                    mainTx, handles, next_i, out, received, printed >>

\* (mutation) the loop runs over 0..=num_threads
MainSpawn_Inclusive ==
    /\ mainPc = "spawn"
    /\ next_i <= num_threads
    /\ status' = [w \in 0 .. next_i |-> IF w = next_i THEN "run" ELSE status[w]]
    /\ port' = [w \in 0 .. next_i |-> IF w = next_i THEN StartPort(next_i) ELSE port[w]]
    /\ handles' = handles \cup {next_i}
    /\ next_i' = next_i + 1
    /\ UNCHANGED << inputs, tries, wraps, wrapTries, sent, markers, chan, mainTx,
                    mainPc, out, received, printed >>

\* one iteration of `for i in 0..num_threads { let tx = tx.clone(); thread::spawn(..) }`
MainSpawn ==
    /\ mainPc = "spawn"
    /\ next_i < num_threads
    /\ status' = [status EXCEPT ![next_i] = "run"]
    /\ port' = [port EXCEPT ![next_i] = StartPort(next_i)]
    /\ handles' = handles \cup {next_i}
    /\ next_i' = next_i + 1
    /\ UNCHANGED << inputs, tries, wraps, wrapTries, sent, markers, chan, mainTx,
                    mainPc, out, received, printed >>

\* the for loop ends
MainSpawnEnd ==
    /\ mainPc = "spawn"
    /\ next_i >= num_threads
    /\ mainPc' = "drop"
    /\ UNCHANGED << inputs, scanVars, chan, mainTx, handles, next_i, out,
                    received, printed >>

\* (mutation) main keeps its Sender while it drains the channel
MainDropTx_KeepsTx ==
    /\ mainPc = "drop"
    /\ out' = << >>
    /\ mainPc' = "recv"
    /\ UNCHANGED << inputs, scanVars, chan, mainTx, handles, next_i, received, printed >>

\* let mut out = vec![]; drop(tx);
MainDropTx ==
    /\ mainPc = "drop"
    /\ out' = << >>
    /\ mainTx' = FALSE
    /\ mainPc' = "recv"
    /\ UNCHANGED << inputs, scanVars, chan, handles, next_i, received, printed >>

\* for p in rx { out.push(p); }  -- one received value
MainRecv ==
    /\ mainPc = "recv"
    /\ Len(chan) > 0
    /\ out' = Append(out, Head(chan))
    /\ received' = Append(received, Head(chan))
    /\ chan' = Tail(chan)
    /\ UNCHANGED << inputs, scanVars, mainTx, handles, mainPc, next_i, printed >>

\* the Receiver `rx` exists: created with the channel, consumed by `for p in rx`
\* and dropped when that loop ends
RxAlive == mainPc \in {"spawn", "drop", "recv"}

\* (mutation) the receive loop ends once main's own Sender is dropped
RecvEnds_MainDropped == Len(chan) = 0 /\ ~mainTx

\* (mutation) the receive loop ends as soon as the buffer is empty
RecvEnds_BufferEmpty == Len(chan) = 0

\* the iterator over rx ends: the buffer is empty and every Sender is dropped
RecvEnds == Len(chan) = 0 /\ ~mainTx /\ handles = {}

MainRecvEnd ==
    /\ mainPc = "recv"
    /\ RecvEnds
    /\ mainPc' = "sort"
    /\ UNCHANGED << inputs, scanVars, chan, mainTx, handles, next_i, out,
                    received, printed >>

\* println!(""); out.sort();
MainSort ==
    /\ mainPc = "sort"
    /\ out' = Sort(out)
    /\ mainPc' = "print"
    /\ UNCHANGED << inputs, scanVars, chan, mainTx, handles, next_i, received,
                    printed >>

\* for v in out { println!("{} is open", v); }  -- one line
MainPrint ==
    /\ mainPc = "print"
    /\ Len(printed) < Len(out)
    /\ printed' = Append(printed, out[Len(printed) + 1])
    /\ UNCHANGED << inputs, scanVars, chan, mainTx, handles, mainPc, next_i, out,
                    received >>

\* the print loop ends and main returns
MainExit ==
    /\ mainPc = "print"
    /\ Len(printed) = Len(out)
    /\ mainPc' = "done"
    /\ UNCHANGED << inputs, scanVars, chan, mainTx, handles, next_i, out,
                    received, printed >>

\* ---------------------------------------------------------------- scan

\* one loop iteration that ends in `break`: scan returns and tx is dropped
ScanBreak(w) ==
    /\ status[w] = "run"
    /\ BreakCond(num_threads)
    /\ Connect(w)
    /\ status' = [status EXCEPT ![w] = "done"]
    /\ handles' = handles \ {w}
    /\ UNCHANGED << inputs, port, wraps, mainTx, mainPc, next_i, out, received,
                    printed >>

\* one loop iteration whose `port += num_threads` fits in the port type
ScanAdvance(w) ==
    /\ status[w] = "run"
    /\ ~BreakCond(num_threads)
    /\ NextCandidate(port[w], num_threads) <= MaxPort
    /\ Connect(w)
    /\ port' = [port EXCEPT ![w] = NextCandidate(port[w], num_threads)]
    /\ UNCHANGED << inputs, status, wraps, mainTx, handles, mainPc, next_i, out,
                    received, printed >>

\* one loop iteration whose `port += num_threads` overflows with overflow
\* checks on: the thread panics and unwinds, dropping tx
ScanOverflowPanic(w) ==
    /\ status[w] = "run"
    /\ ~BreakCond(num_threads)
    /\ NextCandidate(port[w], num_threads) > MaxPort
    /\ overflowChecks
    /\ Connect(w)
    /\ status' = [status EXCEPT ![w] = "panic"]
    /\ handles' = handles \ {w}
    /\ UNCHANGED << inputs, port, wraps, mainTx, mainPc, next_i, out, received,
                    printed >>

\* one loop iteration whose `port += num_threads` overflows with overflow
\* checks off: the sum wraps modulo Modulus and the loop goes on
ScanOverflowWrap(w) ==
    /\ status[w] = "run"
    /\ ~BreakCond(num_threads)
    /\ NextCandidate(port[w], num_threads) > MaxPort
    /\ ~overflowChecks
    /\ TotalWraps < MaxWraps
    /\ Connect(w)
    /\ port' = [port EXCEPT ![w] = NextCandidate(port[w], num_threads) % Modulus]
    /\ wraps' = [wraps EXCEPT ![w] = @ + 1]
    /\ UNCHANGED << inputs, status, mainTx, handles, mainPc, next_i, out,
                    received, printed >>

\* (mutation) the panicking thread's Sender is never dropped
ScanFlushPanic_KeepsTx(w) ==
    /\ status[w] = "run"
    /\ port[w] \in open
    /\ tries' = [tries EXCEPT ![w][port[w]] = @ + 1]
    /\ wrapTries' = [wrapTries EXCEPT ![w] = IF wraps[w] > 0 THEN @ + 1 ELSE @]
    /\ status' = [status EXCEPT ![w] = "panic"]
    /\ UNCHANGED << inputs, port, wraps, sent, markers, chan, mainTx, handles,
                    mainPc, next_i, out, received, printed >>

\* a loop iteration in which connect succeeds and io::stdout().flush() fails:
\* the unwrap panics before tx.send, the thread unwinds and drops tx
ScanFlushPanic(w) ==
    /\ status[w] = "run"
    /\ port[w] \in open
    /\ tries' = [tries EXCEPT ![w][port[w]] = @ + 1]
    /\ wrapTries' = [wrapTries EXCEPT ![w] = IF wraps[w] > 0 THEN @ + 1 ELSE @]
    /\ status' = [status EXCEPT ![w] = "panic"]
    /\ handles' = handles \ {w}
    /\ UNCHANGED << inputs, port, wraps, sent, markers, chan, mainTx, mainPc,
                    next_i, out, received, printed >>

\* ---------------------------------------------------------------- Spec

MainNext ==
    \/ MainSpawn
    \/ MainSpawnEnd
    \/ MainDropTx
    \/ MainRecv
    \/ MainRecvEnd
    \/ MainSort
    \/ MainPrint
    \/ MainExit

ScanNext(w) ==
    \/ ScanBreak(w)
    \/ ScanAdvance(w)
    \/ ScanOverflowPanic(w)
    \/ ScanOverflowWrap(w)

Next ==
    \/ MainSpawn
    \/ MainSpawnEnd
    \/ MainDropTx
    \/ MainRecv
    \/ MainRecvEnd
    \/ MainSort
    \/ MainPrint
    \/ MainExit
    \/ \E w \in Workers : ScanBreak(w)
    \/ \E w \in Workers : ScanAdvance(w)
    \/ \E w \in Workers : ScanOverflowPanic(w)
    \/ \E w \in Workers : ScanOverflowWrap(w)

Spec == Init /\ [][Next]_vars

\* main from its first line: the arguments are parsed, then the scan runs
ArgsNext ==
    \/ MainParseOk
    \/ MainParseErr
    \/ MainParsePanic
    \/ Next

ArgsSpec == ArgsInit /\ [][ArgsNext]_vars

\* The main thread and every spawned thread are scheduled by the OS: a step
\* that stays possible is eventually taken.
FairSpec ==
    /\ FairInit /\ [][Next]_vars
    /\ WF_vars(MainNext)
    /\ \A w \in 0 .. (MaxPort - 1) : WF_vars(w \in Workers /\ ScanNext(w))

\* the scan on a standard output that may fail: any flush may panic the worker
FaultNext ==
    \/ Next
    \/ \E w \in Workers : ScanFlushPanic(w)

\* fair scheduling of main and of the workers' loop; a failure is never forced
FaultSpec ==
    /\ FairInit /\ [][FaultNext]_vars
    /\ WF_vars(MainNext)
    /\ \A w \in 0 .. (MaxPort - 1) : WF_vars(w \in Workers /\ ScanNext(w))

\* ---------------------------------------------------------------- properties

Ended(w) == status[w] \in {"done", "panic"}
\* every worker was spawned and has returned or unwound
AllEnded == next_i = num_threads /\ \A w \in Workers : Ended(w)
\* the ports worker w has tried to connect to so far
Attempted(w) == { p \in Ports : tries[w][p] > 0 }
AllAttempted == UNION { Attempted(w) : w \in Workers }
\* number of occurrences of v in the sequence s
Count(s, v) == Cardinality({ k \in 1 .. Len(s) : s[k] = v })

\* C1: every worker's scan loop terminates: the sequence of ports it attempts
\* is finite, it is not kept going by the wraparound of port + num_threads,
\* and no worker attempts a port it has already attempted.
C1_ScanTerminates ==
    \A w \in Workers : \A p \in Ports : tries[w][p] <= 1

\* C2: a worker stops once port + num_threads would exceed MaxPort: no worker
\* attempts a port obtained by wrapping, and port 0 is never attempted.
C2_NoWrappedPort ==
    \A w \in Workers : wrapTries[w] = 0 /\ tries[w][0] = 0

C4_NoOverlap ==
    \A i \in Workers : \A j \in Workers :
        i # j => Attempted(i) \cap Attempted(j) = {}

C6_SortedNoDup ==
    mainPc \in {"print", "done"} =>
        /\ \A k \in 1 .. (Len(out) - 1) : out[k] <= out[k + 1]
        /\ \A k \in 1 .. Len(out) : \A l \in 1 .. Len(out) : out[k] = out[l] => k = l

\* two ports arrived in descending order and the collection step has run
C6_Witness ==
    /\ mainPc = "print"
    /\ Len(received) = 2
    /\ received[1] > received[2]
    /\ out = << received[2], received[1] >>

\* C7: while the scan runs the result list only grows by appending, and main
\* has not left the receive loop nor printed a result line while a worker is
\* still running or a Sender is still held.
C7_FinalizedAfterWorkers ==
    /\ [][ (mainPc = "recv" /\ mainPc' = "recv") =>
             (out' = out \/ (Len(out') = Len(out) + 1 /\ SubSeq(out', 1, Len(out)) = out)) ]_vars
    /\ []( (mainPc \in {"sort", "print", "done"} \/ Len(printed) > 0) =>
             (AllEnded /\ handles = {} /\ ~mainTx) )

\* main has appended two values, left the receive loop and printed a result
\* line, after several workers ended
C7_Witness ==
    /\ Len(printed) > 0
    /\ Len(received) = 2
    /\ num_threads > 1
    /\ AllEnded

\* C8: main drops its own Sender before it drains the channel, a worker that
\* has ended holds no Sender, and once all workers have ended the receive
\* loop drains every buffered value and ends.
C8_CollectionEnds ==
    /\ [](mainPc \in {"recv", "sort", "print", "done"} => ~mainTx)
    /\ [](\A w \in Workers : Ended(w) => w \notin handles)
    /\ (AllEnded ~> (mainPc \notin {"spawn", "drop", "recv"} /\ Len(chan) = 0
                      /\ Len(out) = markers))

\* all workers have ended, by unwinding, and the receive loop has drained the
\* buffered values and ended
C8_Witness ==
    /\ AllEnded
    /\ \A w \in Workers : status[w] = "panic"
    /\ mainPc = "sort"
    /\ Len(chan) = 0
    /\ Len(out) = 2

\* C9: a scan of a target on which no port accepts connections ends normally,
\* without an error, and reports the empty list.
C9_NoOpenPortsEndsNormally ==
    open = {} =>
        /\ \A w \in Workers : status[w] # "panic" /\ wraps[w] = 0
        /\ mainPc = "done" => printed = << >>

\* C10: when exactly one port p accepts connections, the completed scan
\* reports exactly [p], and p is sent only by worker (p - 1) mod num_threads,
\* exactly once.
C10_SingleListener ==
    \A p \in 1 .. MaxPort :
        open = {p} =>
            /\ mainPc = "done" => printed = << p >>
            /\ \A w \in Workers :
                  sent[w][p] <= (IF w = (p - 1) % num_threads THEN 1 ELSE 0)
            /\ AllEnded => sent[(p - 1) % num_threads][p] = 1

\* number of times port p was sent, all workers together
SentOf(p) == SumUpTo([w \in Workers |-> sent[w][p]], num_threads - 1)

\* C11: with num_threads = MaxPort every worker attempts at most one port, its
\* starting port, and then returns; a worker whose starting port were above
\* MaxPort would attempt none.
C11_MaxThreadsOnePortEach ==
    num_threads = MaxPort =>
        \A w \in Workers :
            /\ Attempted(w) \subseteq {StartPort(w)}
            /\ tries[w][StartPort(w)] = (IF status[w] = "done" THEN 1 ELSE 0)
            /\ status[w] # "panic" /\ wraps[w] = 0
            /\ StartPort(w) > MaxPort => Attempted(w) = {}

\* MaxPort workers have each attempted their one port and returned
C11_Witness ==
    /\ num_threads = MaxPort
    /\ AllEnded
    /\ \A w \in Workers : status[w] = "done" /\ Attempted(w) = {StartPort(w)}

\* C12: a failed connection attempt sends nothing and writes no marker, and
\* the failed port is not attempted again: each worker attempts each port at
\* most once.
C12_FailedConnectSilent ==
    /\ \A w \in Workers : \A p \in Ports :
          p \notin open => (sent[w][p] = 0 /\ tries[w][p] <= 1)
    /\ markers = Len(chan) + Len(received)

IsHelpFlag(f) == f \in { FlagH, FlagHelp }

\* C14: Arguments::new returns Err("help") only when the help flag is the
\* sole argument (two elements); when the help flag comes with further
\* arguments (three or four elements) it returns Err("too many arguments").
C14_HelpOnlyWhenAlone ==
    parsed.kind # "none" =>
        /\ parsed = Err("help") => (Len(args) = 2 /\ IsHelpFlag(Arg(args, 1)))
        /\ (Len(args) \in {3, 4} /\ IsHelpFlag(Arg(args, 1))) =>
              parsed = Err("too many arguments")

\* C15: with a worker count of 0 no worker is started, no connection is
\* attempted, nothing is sent, the receive loop can end as soon as main has
\* dropped its Sender, and the run ends with an empty list.
C15_ZeroWorkersNoScan ==
    (parsed.kind = "Ok" /\ num_threads = 0) =>
        /\ next_i = 0 /\ handles = {}
        /\ DOMAIN status = {} /\ DOMAIN tries = {}
        /\ markers = 0 /\ chan = << >> /\ received = << >>
        /\ mainPc = "recv" => RecvEnds
        /\ out = << >> /\ printed = << >>
        /\ mainPc \notin {"parse", "exit", "abort"}

\* `-j 0 ::1` was parsed and main has run to its end
C15_Witness ==
    /\ args = JArgs(0)
    /\ parsed = Ok(0)
    /\ num_threads = 0
    /\ mainPc = "done"

\* C16: for every argument vector Arguments::new returns Ok or one of its
\* documented Err strings and never panics; a first argument containing -j
\* without the form -j <THREADS> <IPADDR> is rejected with an Err.
C16_NewNeverPanics ==
    parsed.kind # "none" =>
        /\ parsed.kind \in {"Ok", "Err"}
        /\ parsed.kind = "Err" =>
              parsed.err \in { "not enough arguments", "too many arguments", "help",
                               "not a valid IPADDR; must be IPv4 or IPv6",
                               "failed to parse thread number", "invalid syntax" }
        /\ (Len(args) \in {2, 3} /\ Arg(args, 1) = FlagJ) => parsed.kind = "Err"

\* C17: whenever a worker is about to send (it runs and its port accepts the
\* connection) the Receiver still exists, so tx.send succeeds.
C17_SendFindsReceiver ==
    \A w \in Workers : (status[w] = "run" /\ port[w] \in open) => RxAlive

\* main is in the receive loop, has received one value, and another worker
\* is about to send one
C17_Witness ==
    /\ mainPc = "recv"
    /\ Len(received) = 1
    /\ \E w \in Workers : status[w] = "run" /\ port[w] \in open
    /\ \E w \in Workers : Ended(w)

\* C18: a worker that ends by a panic (overflow, failed flush) holds no Sender
\* any more; once every worker has returned or panicked the receive loop
\* ends and main finishes; the final list holds every port that was sent.
C18_AbortReleasesSender ==
    /\ [](\A w \in Workers : status[w] = "panic" => w \notin handles)
    /\ (AllEnded ~> mainPc = "done")
    /\ [](mainPc = "done" => \A p \in Ports : Count(printed, p) = SentOf(p))

\* main has finished and reported a port although a worker panicked on a
\* failed flush before sending its port
C18_Witness ==
    /\ mainPc = "done"
    /\ Len(printed) > 0
    /\ \E w \in Workers : \E p \in open :
          status[w] = "panic" /\ tries[w][p] > sent[w][p]
====
